---------------------------- MODULE Spec2Model ----------------------------
(***************************************************************************)
(* A model of lindenmayer_system (src/src/lindenmayer_systems.py): the     *)
(* recursive interpreter that validates an L-system grammar, expands it to *)
(* a depth and drives a turtle cursor, with the 'auto' compression factor  *)
(* measured by a dry run of the same function.                             *)
(*                                                                         *)
(* Coordinates are exact rationals <<n, d>> (d > 0, lowest terms).  Angles *)
(* are multiples of 90 degrees, for which the turtle's direction vectors   *)
(* are exact.  Where the floating-point build can differ from exact        *)
(* arithmetic (a coordinate that is 0 in exact arithmetic but a rounding   *)
(* residue in floats, or an exact tie inside max/min(..., key=abs)), the   *)
(* model takes a nondeterministic choice over both outcomes.               *)
(***************************************************************************)
EXTENDS Integers, Sequences, FiniteSets, TLC

\* ------------------------------------------------------------ bounds
MaxAxiomLen == 2    \* axioms of every length up to this are enumerated
MaxDepth == 2       \* recursion depths 0..MaxDepth
MaxRuns == 2        \* top-level calls made in a row on one cursor

\* ------------------------------------------------- program constants
MarginNum == 9      \* factor *= 0.9  (as 9/10)
MarginDen == 10
EdgeMargin == 20    \* the "+ 20" of the window-resize test

\* ---------------------------------------------------------- rationals
RECURSIVE Gcd(_, _)
Gcd(a, b) == IF b = 0 THEN a ELSE Gcd(b, a % b)

IAbs(n) == IF n < 0 THEN -n ELSE n

RNorm(n, d) ==
  LET s == IF d < 0 THEN -1 ELSE 1
      g == Gcd(IAbs(n), IAbs(d))
  IN  IF n = 0 THEN <<0, 1>> ELSE <<(s * n) \div g, (s * d) \div g>>

Rat(n) == <<n, 1>>
RAdd(a, b) == RNorm(a[1] * b[2] + b[1] * a[2], a[2] * b[2])
RNeg(a) == <<-a[1], a[2]>>
RSub(a, b) == RAdd(a, RNeg(b))
RMul(a, b) == RNorm(a[1] * b[1], a[2] * b[2])
RDiv(a, b) == RNorm(a[1] * b[2], a[2] * b[1])      \* b # 0
RAbs(a) == <<IAbs(a[1]), a[2]>>
RLt(a, b) == a[1] * b[2] < b[1] * a[2]
RLeq(a, b) == a[1] * b[2] <= b[1] * a[2]
RMax(a, b) == IF RLt(a, b) THEN b ELSE a           \* Python max(a, b)
RMin(a, b) == IF RLt(b, a) THEN b ELSE a           \* Python min(a, b)
RFloor(a) == a[1] \div a[2]
RCeil(a) == -((-a[1]) \div a[2])
RZero == Rat(0)

\* ------------------------------------------------------------ characters
UpperLetters == {"F", "G"}          \* c.isalpha() and c.isupper()
\* c.isupper() and not c.isalpha(): "(A)" stands for the one character
\* U+24B6, CIRCLED LATIN CAPITAL LETTER A (so do the Roman numerals U+2160..)
UpperSymbols == {"(A)"}
Controls == {"[", "]", "+", "-"}    \* the string '[]+-'
Alphabet == UpperLetters \cup UpperSymbols \cup Controls \cup {"a"}

\* A grammar variable: key (a string, as a sequence of characters) and its
\* dict value: a str (tuple = FALSE) or a tuple (repl, draw).
Var(k, r) == [key |-> k, tuple |-> FALSE, repl |-> r, draw |-> FALSE]
VarT(k, r, d) == [key |-> k, tuple |-> TRUE, repl |-> r, draw |-> d]

\* vars.keys()
Keys(vars) == {vars[i].key : i \in 1..Len(vars)}

\* ------------------------------------------------------------ errors
NoErr == [type |-> "none", what |-> "", cite |-> <<>>, index |-> -1]
Err(t, w, c, i) == [type |-> t, what |-> w, cite |-> c, index |-> i]

\* ------------------------------------------------------ validation
\* len(var) == 1 and var.isupper()
ValidName(key) == Len(key) = 1 /\ key[1] \in UpperLetters \cup UpperSymbols

\* the string '[]+' : the right turn is missing from the allowed characters
Allowed_NoMinus(c, vars) == <<c>> \in Keys(vars) \/ c \in {"[", "]", "+"}

\* c in vars.keys() or c in '[]+-'
Allowed(c, vars) == <<c>> \in Keys(vars) \/ c \in Controls

\* the last index of s, from i on, whose character is not allowed, 0 if none
FirstBad_Last(s, vars, i) ==
  LET bad == {j \in i..Len(s) : ~Allowed(s[j], vars)}
  IN  IF bad = {} THEN 0 ELSE CHOOSE j \in bad : \A k \in bad : k <= j

\* the first index of s whose character is not allowed, 0 if none
RECURSIVE FirstBad(_, _, _)
FirstBad(s, vars, i) ==
  IF i > Len(s) THEN 0
  ELSE IF ~Allowed(s[i], vars) THEN i
  ELSE FirstBad(s, vars, i + 1)

\* the first index of vars whose key is not a valid name, 0 if none
RECURSIVE FirstBadKey(_, _)
FirstBadKey(vars, i) ==
  IF i > Len(vars) THEN 0
  ELSE IF ~ValidName(vars[i].key) THEN i
  ELSE FirstBadKey(vars, i + 1)

\* The walrus target e3 after  any(not (c in keys or (e3 := c) in '[]+-') ...)
\* has scanned all of a legal replacement s: the last character that is not
\* a key, or the value e3 had before (<<>> when never bound).
LastNonKey(s, vars, e3) ==
  LET nk == {i \in 1..Len(s) : <<s[i]>> \notin Keys(vars)}
  IN  IF nk = {} THEN e3
      ELSE <<s[CHOOSE i \in nk : \A j \in nk : j <= i]>>

\* line 124-127: the replacements, variable by variable, in dict order
RECURSIVE CheckReplacements(_, _, _)
CheckReplacements(vars, i, e3) ==
  IF i > Len(vars) THEN NoErr
  ELSE LET v == vars[i]
           bad == FirstBad(v.repl, vars, 1)
       IN  IF ~v.tuple /\ v.repl = <<>>
             THEN Err("IndexError", "string index out of range", v.key, -1)
           ELSE IF v.repl = <<>>
             THEN IF e3 = <<>>
                    THEN Err("UnboundLocalError", "e3", v.key, -1)
                    ELSE Err("ValueError", "replacement", e3, -1)
           ELSE IF bad # 0
             THEN Err("ValueError", "replacement", <<v.repl[bad]>>, bad - 1)
           ELSE CheckReplacements(vars, i + 1, LastNonKey(v.repl, vars, e3))

\* lines 117-127: the checks of the grammar without the assert of line 129
Validate_NoAssert(axiom, vars, step_length, auto, compression_factor) ==
  LET k == FirstBadKey(vars, 1)
      a == FirstBad(axiom, vars, 1)
      r == CheckReplacements(vars, 1, <<>>)
  IN  IF k # 0 THEN Err("ValueError", "variable name", vars[k].key, -1)
      ELSE IF a # 0 THEN Err("ValueError", "axiom", <<axiom[a]>>, a - 1)
      ELSE r

\* lines 117-129: the first violation, in the order the code checks
Validate(axiom, vars, step_length, auto, compression_factor) ==
  LET k == FirstBadKey(vars, 1)
      a == FirstBad(axiom, vars, 1)
      r == CheckReplacements(vars, 1, <<>>)
  IN  IF k # 0 THEN Err("ValueError", "variable name", vars[k].key, -1)
      ELSE IF a # 0 THEN Err("ValueError", "axiom", <<axiom[a]>>, a - 1)
      ELSE IF r.type # "none" THEN r
      ELSE IF step_length = 0 \/ (~auto /\ compression_factor = 0)
        THEN Err("AssertionError", "step_length or compression_factor", <<>>, -1)
      ELSE NoErr

\* ------------------------------------------------------------ the cursor
\* turtle.Turtle(): at the origin, heading 0 (east), pen down
NewTurtle == [pos |-> <<RZero, RZero>>, heading |-> 0, pen |-> "down"]

\* unit vector of a heading that is a multiple of 90 degrees
Dir(h) ==
  CASE h = 0 -> <<1, 0>>
    [] h = 90 -> <<0, 1>>
    [] h = 180 -> <<-1, 0>>
    [] h = 270 -> <<0, -1>>

\* _turtle.forward(dist)
Forward(t, dist) ==
  [t EXCEPT !.pos = <<RAdd(t.pos[1], RMul(dist, Rat(Dir(t.heading)[1]))),
                      RAdd(t.pos[2], RMul(dist, Rat(Dir(t.heading)[2])))>>]

\* _turtle.left(angle), _turtle.right(angle)
Left(t, angle) == [t EXCEPT !.heading = (t.heading + angle) % 360]
Right(t, angle) == [t EXCEPT !.heading = (t.heading - angle) % 360]

\* lines 112-115 without the final pendown()
SetupTurtle_NoPenDown(t, initial_angle, system_center_cords) ==
  [pos |-> <<Rat(system_center_cords[1]), Rat(system_center_cords[2])>>,
   heading |-> (initial_angle + 90) % 360,
   pen |-> "up"]

\* lines 112-115: seth((initial_angle + 90) % 360); penup(); goto(centre); pendown()
SetupTurtle(t, initial_angle, system_center_cords) ==
  [pos |-> <<Rat(system_center_cords[1]), Rat(system_center_cords[2])>>,
   heading |-> (initial_angle + 90) % 360,
   pen |-> "down"]

\* The turtle keeps its orientation as a vector of floats that it rotates by
\* cos and sin of the angle: heading north or south its x component is a
\* residue of about 1e-16 instead of 0, heading east or west its y component
\* is one or is exactly 0 (as after Turtle() and seth(0)).  A forward step
\* therefore adds the exact step to the coordinate it moves along and a
\* residue, or nothing, to the other one.  r: which of x, y may hold a residue.
NoResidue == [x |-> FALSE, y |-> FALSE]
Residue(r, heading) ==
  IF heading \in {90, 270} THEN [r EXCEPT !.x = TRUE] ELSE [r EXCEPT !.y = TRUE]

\* ------------------------------------------------------------ the state
VARIABLES
  cfg,        \* the arguments of the top-level call
  turtle,     \* _turtle of the top-level call
  dry,        \* the Turtle() the dry run creates: <<>> or <<t>>
  screen,     \* _screen: window size (w, h) and canvas size (cw, ch)
  stack,      \* the activations of lindenmayer_system, innermost last
  pc,         \* where the top-level call is
  err,        \* the exception that ended the call, or NoErr
  dry_box,    \* (min_cord, max_cord) returned by the dry run: <<>> or <<min, max>>
  ret,        \* the (min, max) the top-level call returned: <<>> or <<min, max>>
  warnings,   \* the axioms named by the warn() calls of this top-level call
  finished,   \* for each "Finished drawing." of this call: the stack height
  start,      \* the cursor as it was when the top-level call started
  origin,     \* the cursor when the scan of the top-level axiom started
  fwd,        \* forward() calls made on _turtle in this call
  dfwd,       \* forward() calls made on the dry-run turtle in this call
  dres,       \* may the dry-run turtle's x, y carry a rounding residue
  tres,       \* may _turtle's x, y carry a rounding residue
  ends,       \* the positions _turtle reached by forward() in this call
  moves,      \* the displacement of each forward() of _turtle in this call
  run,        \* number of the top-level call on this cursor
  prev        \* the previous completed call: <<>> or <<[depth, step_length, ...]>>

vars == <<cfg, turtle, dry, screen, stack, pc, err, dry_box, ret, warnings,
          finished, start, origin, fwd, dfwd, dres, tres, ends, moves, run,
          prev>>

\* one activation of lindenmayer_system.  opened is a record the code does not
\* keep: for every [ this activation has processed, its index and the
\* cursor's position and heading at that moment.
Frame(axiom, depth, step_length, auto, compression_factor, no_draw, initial_call, extrem_cords) ==
  [axiom |-> axiom, depth |-> depth, idx |-> 0, stored_states |-> <<>>,
   opened |-> <<>>,
   min_c |-> <<RZero, RZero>>, max_c |-> <<RZero, RZero>>,
   step_length |-> step_length, auto |-> auto,
   compression_factor |-> compression_factor, no_draw |-> no_draw,
   initial_call |-> initial_call, extrem_cords |-> extrem_cords]

Top == stack[Len(stack)]

\* the cursor the innermost activation drives
Cur == IF Top.no_draw THEN dry[1] ELSE turtle

\* ------------------------------------------------------------ the inputs
\* every string over the alphabet of length at most n
Strings(n) == UNION {[1..k -> Alphabet] : k \in 0..n}

\* axioms named by the specification's examples, and one with nested brackets
ExampleAxioms ==
  { <<"F">>, <<"F", "]">>, <<"F", "[">>,
    <<"[", "F", "[", "+", "F", "]", "F", "]">>,
    <<"F", "[", "+", "F", "]", "-", "F">>,
    <<"F", "+", "+", "F", "F">>,
    <<"[", "F", "]", "G", "+", "F">> }

\* variable mappings (dicts, in insertion order) of grammars that draw
GoodVars ==
  { << Var(<<"F">>, <<"F">>) >>,
    << Var(<<"F">>, <<"F", "F">>) >>,
    << Var(<<"F">>, <<"+", "F", "+">>) >>,
    << Var(<<"F">>, <<"[", "F">>) >>,
    << Var(<<"F">>, <<"F", "]", "F">>) >>,
    << Var(<<"F">>, <<"F", "+", "G">>), Var(<<"G">>, <<"-", "F">>) >>,
    << VarT(<<"G">>, <<"F", "G", "F">>, FALSE),
       VarT(<<"F">>, <<"F", "[", "-", "F", "]">>, TRUE) >> }

\* the empty mapping, and mappings the validation has to reject
BadVars ==
  { << >>,
    << Var(<<"F">>, <<"F">>), Var(<<"a">>, <<"F">>) >>,
    << Var(<<"F", "G">>, <<"F">>) >>,
    << Var(<<"F">>, <<"F", "a">>) >>,
    << Var(<<"F">>, << >>) >>,
    << VarT(<<"F">>, << >>, TRUE) >>,
    << Var(<<"F">>, <<"F", "+">>), VarT(<<"G">>, << >>, FALSE) >> }

\* mappings with a variable whose name is upper-case but not alphabetic
SymbolVars ==
  { << Var(<<"(A)">>, <<"(A)">>) >>,
    << Var(<<"F">>, <<"F", "(A)">>), Var(<<"(A)">>, <<"F">>) >> }

Config(axiom, vs, depth, auto, cf, step, ia, centre) ==
  [axiom |-> axiom, vars |-> vs, depth |-> depth, angle |-> 90,
   auto |-> auto, compression_factor |-> cf, step_length |-> step,
   initial_angle |-> ia, system_center_cords |-> centre]

\* grammars of every shape, legal or not, with a few settings
ValidationConfigs ==
  { Config(a, v, d, c[1], c[2], s, 0, <<0, 0>>) :
      a \in Strings(MaxAxiomLen) \cup ExampleAxioms,
      v \in GoodVars \cup BadVars \cup SymbolVars,
      d \in {0, 1},
      c \in {<<FALSE, 1>>},
      s \in {10} }
  \cup
  { Config(a, v, 0, c[1], c[2], s, 0, <<0, 0>>) :
      a \in ExampleAxioms,
      v \in GoodVars \cup BadVars,
      c \in {<<TRUE, 1>>, <<FALSE, 1>>, <<FALSE, 0>>},
      s \in {10, 0} }

\* legal grammars with every setting; the factor 2 at the default placement
DrawingConfigs ==
  { Config(a, v, d, c[1], c[2], s, g[1], g[2]) :
      a \in ExampleAxioms,
      v \in GoodVars,
      d \in 0..MaxDepth,
      c \in {<<TRUE, 1>>, <<FALSE, 1>>},
      s \in {10},
      g \in {<<0, <<0, 0>>>>, <<270, <<0, 0>>>>, <<0, <<20, -10>>>>} }
  \cup
  { Config(a, v, d, FALSE, 2, 10, 0, <<0, 0>>) :
      a \in ExampleAxioms,
      v \in GoodVars,
      d \in 0..MaxDepth }

\* a cursor the caller passes in: new, or left somewhere by earlier use
Cursors ==
  { NewTurtle,
    [pos |-> <<Rat(30), Rat(-10)>>, heading |-> 180, pen |-> "up"] }

Init ==
  /\ \/ cfg \in ValidationConfigs /\ turtle \in Cursors
     \/ cfg \in DrawingConfigs /\ turtle = NewTurtle
  /\ dry = <<>>
  /\ screen = [w |-> 100, h |-> 80, cw |-> Rat(400), ch |-> Rat(300)]
  /\ stack = <<>>
  /\ pc = "call"
  /\ err = NoErr
  /\ dry_box = <<>>
  /\ ret = <<>>
  /\ warnings = <<>>
  /\ finished = <<>>
  /\ start = turtle
  /\ origin = turtle
  /\ fwd = 0
  /\ dfwd = 0
  /\ dres = NoResidue
  /\ tres = NoResidue
  /\ ends = {}
  /\ moves = <<>>
  /\ run = 1
  /\ prev = <<>>

\* ------------------------------------------------------------ the call
\* lines 100-115: the cursor is oriented and placed before anything else.
\* goto() sets both coordinates exactly, but only a new Turtle() is known to
\* step without residue along the axis it heads for.
Setup ==
  /\ pc = "call"
  /\ turtle' = SetupTurtle(turtle, cfg.initial_angle, cfg.system_center_cords)
  /\ tres' = IF turtle = NewTurtle /\ run = 1 THEN NoResidue
             ELSE [x |-> TRUE, y |-> TRUE]
  /\ pc' = "validate"
  /\ UNCHANGED <<cfg, dry, screen, stack, err, dry_box, ret, warnings, finished,
                 start, origin, fwd, dfwd, dres, ends, moves, run, prev>>

\* lines 116-129
ValidateStep ==
  /\ pc = "validate"
  /\ LET e == Validate(cfg.axiom, cfg.vars, cfg.step_length, cfg.auto,
                       cfg.compression_factor)
     IN  /\ err' = e
         /\ pc' = IF e.type = "none" THEN "config" ELSE "error"
  /\ UNCHANGED <<cfg, turtle, dry, screen, stack, dry_box, ret, warnings,
                 finished, start, origin, fwd, dfwd, dres, tres, ends, moves, run, prev>>

RECURSIVE Pow(_, _)
Pow(b, e) == IF e = 0 THEN 1 ELSE b * Pow(b, e - 1)

\* line 214 with the depth counted from one
ScaledStep_OneLevelMore(step_length, compression_factor, initial_depth) ==
  Rat(step_length * Pow(compression_factor, initial_depth + 1))

\* line 214: step_length *= compression_factor ** __initial_depth
ScaledStep(step_length, compression_factor, initial_depth) ==
  Rat(step_length * Pow(compression_factor, initial_depth))

\* lines 131-217, up to the dry run's call (line 167) when the factor is 'auto'
Configure ==
  /\ pc = "config"
  /\ pc' = "run"
  /\ IF cfg.auto
       THEN /\ stack' =
                 << Frame(cfg.axiom, cfg.depth, Rat(cfg.step_length), TRUE,
                          cfg.compression_factor, FALSE, TRUE, <<>>),
                    Frame(cfg.axiom, cfg.depth, Rat(cfg.step_length), FALSE, 1,
                          TRUE, FALSE, <<>>) >>
            \* the callee: Turtle(), lines 109-115, then lines 218-220
            /\ dry' = << [SetupTurtle(NewTurtle, cfg.initial_angle,
                                      cfg.system_center_cords)
                            EXCEPT !.pen = "up"] >>
            /\ UNCHANGED origin
       ELSE /\ stack' =
                 << Frame(cfg.axiom, cfg.depth,
                          ScaledStep(cfg.step_length, cfg.compression_factor,
                                     cfg.depth),
                          FALSE, cfg.compression_factor, FALSE, TRUE, <<>>) >>
            /\ origin' = turtle
            /\ UNCHANGED dry
  /\ UNCHANGED <<cfg, turtle, screen, err, dry_box, ret, warnings, finished,
                 start, fwd, dfwd, dres, tres, ends, moves, run, prev>>

\* ------------------------------------------------------------ the scan
Scanning == pc = "run" /\ stack # <<>> /\ Top.idx < Len(Top.axiom)

\* the character the innermost activation is at, and its (0-based) index
Char == Top.axiom[Top.idx + 1]

\* the stack with its innermost activation replaced
WithTop(f) == [stack EXCEPT ![Len(stack)] = f]

\* the cursor of the innermost activation becomes t
SetCur(t) ==
  IF Top.no_draw
    THEN dry' = <<t>> /\ UNCHANGED turtle
    ELSE turtle' = t /\ UNCHANGED dry

Raise(e) == pc' = "error" /\ err' = e

\* line 227-228: stored_states.append((pos, heading))
OpenBracket(f, t) ==
  [f EXCEPT !.stored_states = Append(@, <<t.pos, t.heading>>),
            !.opened = Append(@, <<f.idx, t.pos, t.heading>>),
            !.idx = @ + 1]

ScanOpen ==
  /\ Scanning
  /\ Char = "["
  /\ stack' = WithTop(OpenBracket(Top, Cur))
  /\ UNCHANGED <<cfg, turtle, dry, screen, pc, err, dry_box, ret, warnings,
                 finished, start, origin, fwd, dfwd, dres, tres, ends, moves, run, prev>>

\* line 230: is the ] unmatched
Unmatched(f) == Len(f.stored_states) = 0

\* line 231 citing the position counted from one
UnmatchedError_FromOne(f) == Err("ValueError", "unmatched ]", <<"]">>, f.idx + 1)

\* line 231: the error names the index of the ] in the string being scanned
UnmatchedError(f) == Err("ValueError", "unmatched ]", <<"]">>, f.idx)

\* lines 232-237 without seth(stored_head)
Restore_KeepHeading(f, t) ==
  LET st == f.stored_states[Len(f.stored_states)]
  IN  [pos |-> st[1], heading |-> t.heading,
       pen |-> IF f.no_draw THEN "up" ELSE "down"]

\* lines 232-237: up(); goto(stored_pos); seth(stored_head); down() unless no_draw
Restore(f, t) ==
  LET st == f.stored_states[Len(f.stored_states)]
  IN  [pos |-> st[1], heading |-> st[2],
       pen |-> IF f.no_draw THEN "up" ELSE "down"]

\* line 233 with pop(0): the oldest stored state is dropped
CloseBracket_DropOldest(f) ==
  [f EXCEPT !.stored_states = Tail(@), !.idx = @ + 1]

\* line 233: stored_states.pop()
CloseBracket(f) ==
  [f EXCEPT !.stored_states = SubSeq(@, 1, Len(@) - 1), !.idx = @ + 1]

ScanClose ==
  /\ Scanning
  /\ Char = "]"
  /\ IF Unmatched(Top)
       THEN /\ Raise(UnmatchedError(Top))
            /\ UNCHANGED <<stack, turtle, dry>>
       ELSE /\ SetCur(Restore(Top, Cur))
            /\ stack' = WithTop(CloseBracket(Top))
            /\ UNCHANGED <<pc, err>>
  /\ UNCHANGED <<cfg, screen, dry_box, ret, warnings, finished, start, origin,
                 fwd, dfwd, dres, tres, ends, moves, run, prev>>

\* lines 238-241: "+" is left(angle), "-" is right(angle)
Turn(c, t, angle) == IF c = "+" THEN Left(t, angle) ELSE Right(t, angle)

ScanTurn ==
  /\ Scanning
  /\ Char \in {"+", "-"}
  /\ SetCur(Turn(Char, Cur, cfg.angle))
  /\ stack' = WithTop([Top EXCEPT !.idx = @ + 1])
  /\ UNCHANGED <<cfg, screen, pc, err, dry_box, ret, warnings, finished, start,
                 origin, fwd, dfwd, dres, tres, ends, moves, run, prev>>

\* line 243-246: the position in vars.items() of the variable named c, 0 if none
RECURSIVE Lookup(_, _, _)
Lookup(vs, c, i) ==
  IF i > Len(vs) THEN 0
  ELSE IF vs[i].key = <<c>> THEN i
  ELSE Lookup(vs, c, i + 1)

\* line 245: replacement, draw = (properties, var_index == 0) if str else properties
Draws(vs, i) == IF vs[i].tuple THEN vs[i].draw ELSE i = 1

\* lines 255-259: the running extremes take in the new position
Track(f, pos) ==
  IF f.extrem_cords # <<>> THEN f
  ELSE [f EXCEPT !.max_c = <<RMax(pos[1], @[1]), RMax(pos[2], @[2])>>,
                 !.min_c = <<RMin(pos[1], @[1]), RMin(pos[2], @[2])>>]

\* lines 261-266: the canvas grows when the cursor is near the window's edge.
\* short[axis]: a residue makes |coordinate| + 20 fall short of a bound it
\* equals in exact arithmetic.
Resize(f, sc, pos, short) ==
  LET Near(half, c, sh) ==
        /\ RLeq(Rat(half), RAdd(RAbs(c), Rat(EdgeMargin)))
        /\ ~(sh /\ Rat(half) = RAdd(RAbs(c), Rat(EdgeMargin)))
  IN  IF f.auto \/ f.no_draw THEN sc
      ELSE IF Near(sc.w \div 2, pos[1], short[1])
        THEN [sc EXCEPT !.cw = RAdd(RMul(RAbs(pos[1]), Rat(2)), Rat(EdgeMargin))]
      ELSE IF Near(sc.h \div 2, pos[2], short[2])
        THEN [sc EXCEPT !.ch = RAdd(RMul(RAbs(pos[2]), Rat(2)), Rat(EdgeMargin))]
      ELSE sc

\* lines 269-273 passing depth 0 instead of depth - 1
Expand_ToBase(f, replacement) ==
  [Frame(replacement, 0, f.step_length, f.auto, f.compression_factor,
         f.no_draw, FALSE, f.extrem_cords) EXCEPT !.idx = 0]

\* lines 269-273 with the caller's list of stored states handed to the callee
Expand_InheritStates(f, replacement) ==
  [Frame(replacement, f.depth - 1, f.step_length, f.auto, f.compression_factor,
         f.no_draw, FALSE, f.extrem_cords) EXCEPT !.stored_states = f.stored_states]

\* lines 269-273: the activation for the replacement, one level down
Expand(f, replacement) ==
  [Frame(replacement, f.depth - 1, f.step_length, f.auto, f.compression_factor,
         f.no_draw, FALSE, f.extrem_cords) EXCEPT !.idx = 0]

\* lines 242-282: a variable, or a character that is none of the above
ScanSymbol ==
  /\ Scanning
  /\ Char \notin Controls
  /\ LET f == Top
         i == Lookup(cfg.vars, Char, 1)
     IN  IF Char \notin UpperLetters
           THEN /\ Raise(Err("ValueError", "invalid character", <<Char>>, f.idx))
                /\ UNCHANGED <<stack, turtle, dry, screen, fwd, dfwd, dres, tres, ends, moves>>
         ELSE IF i = 0
           THEN /\ Raise(Err("ValueError", "variable not provided", <<Char>>, f.idx))
                /\ UNCHANGED <<stack, turtle, dry, screen, fwd, dfwd, dres, tres, ends, moves>>
         ELSE IF f.depth = 0 /\ Draws(cfg.vars, i)
           THEN LET t == Forward(Cur, f.step_length)
                    r == Residue(tres, Cur.heading)
                IN  /\ SetCur(t)
                    /\ stack' = WithTop([Track(f, t.pos) EXCEPT !.idx = @ + 1])
                    /\ \E shx \in {FALSE, r.x}, shy \in {FALSE, r.y} :
                         screen' = Resize(f, screen, t.pos, <<shx, shy>>)
                    /\ tres' = IF f.no_draw THEN tres ELSE r
                    /\ fwd' = IF f.no_draw THEN fwd ELSE fwd + 1
                    /\ dfwd' = IF f.no_draw THEN dfwd + 1 ELSE dfwd
                    /\ dres' = IF f.no_draw THEN Residue(dres, Cur.heading) ELSE dres
                    /\ ends' = IF f.no_draw THEN ends ELSE ends \cup {t.pos}
                    /\ moves' = IF f.no_draw THEN moves
                                ELSE Append(moves, <<RSub(t.pos[1], Cur.pos[1]),
                                                     RSub(t.pos[2], Cur.pos[2])>>)
                    /\ UNCHANGED <<pc, err>>
         ELSE IF f.depth = 0
           THEN /\ stack' = WithTop([f EXCEPT !.idx = @ + 1])
                /\ UNCHANGED <<turtle, dry, screen, fwd, dfwd, dres, tres, ends, moves, pc, err>>
         ELSE /\ stack' = Append(stack, Expand(f, cfg.vars[i].repl))
              /\ UNCHANGED <<turtle, dry, screen, fwd, dfwd, dres, tres, ends, moves, pc, err>>
  /\ UNCHANGED <<cfg, dry_box, ret, warnings, finished, start, origin, run, prev>>

\* ------------------------------------------------------------ the return
\* line 298: the frozen extremes if there are any, else the tracked ones
Extremes(f) ==
  IF f.extrem_cords = <<>> THEN <<f.min_c, f.max_c>> ELSE f.extrem_cords

\* lines 284-290: only the top-level activation signals completion
Signals(f) == f.initial_call

\* lines 292-296 guarded by __initial_call
Warns_TopLevelOnly(f) == f.initial_call /\ Len(f.stored_states) # 0

\* lines 292-296: an activation warns when its own list of states is not empty
Warns(f) == Len(f.stored_states) # 0

\* lines 274-277: the caller takes the returned extremes in and moves on
Merge(c, box) ==
  [(IF c.extrem_cords # <<>> THEN c
    ELSE [c EXCEPT
            !.min_c = <<RMin(box[1][1], @[1]), RMin(box[1][2], @[2])>>,
            !.max_c = <<RMax(box[2][1], @[1]), RMax(box[2][2], @[2])>>])
   EXCEPT !.idx = @ + 1]

\* lines 284-299, and the caller's lines after the call returns
Return ==
  /\ pc = "run"
  /\ stack # <<>>
  /\ Top.idx = Len(Top.axiom)
  /\ finished' = IF Signals(Top) THEN Append(finished, Len(stack)) ELSE finished
  /\ warnings' = IF Warns(Top) THEN Append(warnings, Top.axiom) ELSE warnings
  /\ IF Len(stack) = 1
       THEN \* the top-level call returns
            /\ ret' = Extremes(Top)
            /\ stack' = <<>>
            /\ pc' = "done"
            /\ UNCHANGED dry_box
     ELSE IF Len(stack) = 2 /\ Top.no_draw
       THEN \* the dry run returns to line 167
            /\ dry_box' = Extremes(Top)
            /\ stack' = <<stack[1]>>
            /\ pc' = "scale"
            /\ UNCHANGED ret
     ELSE \* a replacement returns to line 269
          /\ stack' = Append(SubSeq(stack, 1, Len(stack) - 2),
                             Merge(stack[Len(stack) - 1], Extremes(Top)))
          /\ UNCHANGED <<pc, ret, dry_box>>
  /\ UNCHANGED <<cfg, turtle, dry, screen, err, start, origin, fwd, dfwd, dres, tres, ends, moves,
                 run, prev>>

\* ------------------------------------------------------------ auto-scaling
\* max(a, b, key=abs): the first of the two unless the second is larger in
\* absolute value; on an exact tie the floating-point residue decides (second)
MaxByAbs(a, b, second) ==
  IF RLt(RAbs(a), RAbs(b)) THEN b
  ELSE IF RAbs(a) = RAbs(b) /\ second THEN b
  ELSE a

\* min(a, b, key=abs)
MinByAbs(a, b, second) ==
  IF RLt(RAbs(b), RAbs(a)) THEN b
  ELSE IF RAbs(a) = RAbs(b) /\ second THEN b
  ELSE a

\* lines 184-195
rnd_from_zero(x) == IF RLt(x, RZero) THEN RFloor(x) ELSE RCeil(x)

\* lines 172-177.  ax, ay: the coordinates of larger absolute value; one that
\* is exactly zero here stands for a residue (a huge ratio, which min drops).
Factor(ax, ay, w, h, step_length, second) ==
  LET base == IF ax = RZero THEN RDiv(Rat(h), ay)
              ELSE IF ay = RZero THEN RDiv(Rat(w), ax)
              ELSE MinByAbs(RDiv(Rat(w), ax), RDiv(Rat(h), ay), second)
  IN  RMul(RMul(base, <<MarginNum, MarginDen>>),
           Rat(IF step_length > 0 THEN 1 ELSE -1))

\* line 200: -(min_cord[axis] + dis / 2) * factor
StartingPoint(min_cord, max_cord, factor) ==
  [axis \in 1..2 |->
     RMul(RNeg(RAdd(min_cord[axis],
                    RDiv(RSub(max_cord[axis], min_cord[axis]), Rat(2)))),
          factor)]

\* The float that stands for the exact value v when it may hold a residue
\* (e = -1, 1) or not (e = 0); the residue is smaller than any difference
\* between two values of the drawing.  The factor is computed from both
\* coordinates, so a residue of either reaches both of the starting point's.
ResidueSigns(may) == IF may THEN {-1, 0, 1} ELSE {0}
WithResidue(v, e) == RAdd(v, <<e, 1000000>>)

\* lines 206-208
FrozenExtremes(sp) ==
  << <<Rat(rnd_from_zero(RMul(sp[1], Rat(2)))), Rat(rnd_from_zero(sp[2]))>>,
     <<Rat(-rnd_from_zero(RMul(sp[1], Rat(2)))), Rat(-rnd_from_zero(sp[2]))>> >>

\* lines 171-212, after the dry run returned.  A coordinate that cannot hold
\* a residue is exact: a tie on it takes the first argument and a zero of it
\* divides by zero; one that can hold a residue leaves both outcomes open,
\* and the rounding of lines 206-208 sees the residue of the starting point.
AutoScale ==
  /\ pc = "scale"
  /\ \E sx, sy, sf, exact \in BOOLEAN :
     \E ex, ey \in ResidueSigns(dres.x \/ dres.y) :
       LET min_cord == dry_box[1]
           max_cord == dry_box[2]
           ax == MaxByAbs(min_cord[1], max_cord[1], sx /\ dres.x)
           ay == MaxByAbs(min_cord[2], max_cord[2], sy /\ dres.y)
           factor == Factor(ax, ay, screen.w, screen.h, cfg.step_length,
                            sf /\ (dres.x \/ dres.y))
           sp == StartingPoint(min_cord, max_cord, factor)
       IN  IF \/ ax = RZero /\ ay = RZero
              \/ ax = RZero /\ (exact \/ ~dres.x)
              \/ ay = RZero /\ (exact \/ ~dres.y)
             THEN /\ Raise(Err("ZeroDivisionError", "division by zero", <<>>, -1))
                  /\ UNCHANGED <<stack, turtle, tres, origin>>
             ELSE /\ turtle' = [turtle EXCEPT !.pos = <<sp[1], sp[2]>>,
                                              !.pen = "down"]
                  /\ tres' = [x |-> TRUE, y |-> TRUE]
                  /\ origin' = turtle'
                  /\ stack' = << [stack[1] EXCEPT
                                    !.step_length = RMul(@, factor),
                                    !.extrem_cords =
                                       FrozenExtremes(<<WithResidue(sp[1], ex),
                                                        WithResidue(sp[2], ey)>>)] >>
                  /\ pc' = "run"
                  /\ UNCHANGED err
  /\ UNCHANGED <<cfg, dry, screen, dry_box, ret, warnings, finished, start, fwd,
                 dfwd, dres, ends, moves, run, prev>>

\* ------------------------------------------------------------ the caller
\* main.py lines 22-31: the caller runs again on the same cursor and screen,
\* with arguments entered anew: here one level deeper, or with the step
\* length negated
Rerun ==
  /\ pc = "done"
  /\ run < MaxRuns
  /\ \/ /\ cfg.depth < MaxDepth
        /\ cfg' = [cfg EXCEPT !.depth = @ + 1]
     \/ cfg' = [cfg EXCEPT !.step_length = -@]
  /\ prev' = << [depth |-> cfg.depth, step_length |-> cfg.step_length,
                 fwd |-> fwd, moves |-> moves] >>
  /\ run' = run + 1
  /\ pc' = "call"
  /\ start' = turtle
  /\ origin' = turtle
  /\ dry' = <<>>
  /\ dry_box' = <<>>
  /\ ret' = <<>>
  /\ warnings' = <<>>
  /\ finished' = <<>>
  /\ fwd' = 0
  /\ dfwd' = 0
  /\ dres' = NoResidue
  /\ ends' = {}
  /\ moves' = <<>>
  /\ UNCHANGED <<turtle, tres, screen, stack, err>>

Next ==
  \/ Setup
  \/ ValidateStep
  \/ Configure
  \/ AutoScale
  \/ ScanOpen
  \/ ScanClose
  \/ ScanTurn
  \/ ScanSymbol
  \/ Return
  \/ Rerun

Spec == Init /\ [][Next]_vars

\* ============================================================ the claims
\* the call was ended by the validation of lines 116-129
Rejected ==
  /\ pc = "error"
  /\ err.what \in {"variable name", "axiom", "replacement",
                   "string index out of range", "e3",
                   "step_length or compression_factor"}

\* the validation step is over
Validated == pc \notin {"call", "validate"}

\* ------------------------------------------------------------------ C1
\* C1 (as stated): when validation rejects the grammar, the cursor's heading,
\* position and pen state are exactly what they were when the call started.
C1_NoMutationBeforeReject == Rejected => turtle = start

\* C1 (amended): when validation rejects the grammar nothing has been drawn
\* (no forward step, no dry run, an untouched canvas), but the setup of lines
\* 109-115 has already run: the cursor is at the system centre, heads
\* (initial_angle + 90) mod 360 and its pen is down.
C1_RejectedAfterSetupOnly ==
  Rejected =>
    /\ turtle.pos = <<Rat(cfg.system_center_cords[1]),
                      Rat(cfg.system_center_cords[2])>>
    /\ turtle.heading = (cfg.initial_angle + 90) % 360
    /\ turtle.pen = "down"
    /\ fwd = 0 /\ dfwd = 0 /\ ends = {} /\ dry = <<>> /\ stack = <<>>
    /\ screen.cw = Rat(400) /\ screen.ch = Rat(300)

\* a rejected grammar whose call has moved, turned and pen-downed the cursor
C1_Witness ==
  /\ Rejected
  /\ turtle.pos # start.pos
  /\ turtle.heading # start.heading
  /\ turtle.pen # start.pen

\* ------------------------------------------------------------------ C2
\* every key is one uppercase letter
C2_KeysLegal ==
  \A i \in 1..Len(cfg.vars) :
    Len(cfg.vars[i].key) = 1 /\ cfg.vars[i].key[1] \in {"F", "G"}

\* every character of s is a variable key or one of + - [ ]
C2_CharsLegal(s) ==
  \A j \in 1..Len(s) :
    \/ s[j] \in {"+", "-", "[", "]"}
    \/ \E i \in 1..Len(cfg.vars) : cfg.vars[i].key = <<s[j]>>

C2_GrammarLegal ==
  /\ C2_KeysLegal
  /\ C2_CharsLegal(cfg.axiom)
  /\ \A i \in 1..Len(cfg.vars) : C2_CharsLegal(cfg.vars[i].repl)

\* C2 (as stated): a grammar whose keys are single uppercase letters and whose
\* axiom and productions use only keys and + - [ ] passes validation.
C2_LegalGrammarPasses == (Validated /\ C2_GrammarLegal) => ~Rejected

\* C2 (amended): such a grammar passes validation when, in addition, no
\* production is empty and step length and compression factor are not zero.
C2_LegalNonEmptyPasses ==
  ( /\ Validated
    /\ C2_GrammarLegal
    /\ \A i \in 1..Len(cfg.vars) : cfg.vars[i].repl # <<>>
    /\ cfg.step_length # 0
    /\ (cfg.auto \/ cfg.compression_factor # 0) )
  => ~Rejected

\* a legal grammar using two variables, a turn to the right and brackets
\* has passed validation
C2_Witness ==
  /\ pc = "config"
  /\ Len(cfg.vars) = 2
  /\ cfg.axiom = <<"[", "F", "]", "G", "+", "F">>
  /\ \E i \in 1..2 : \E j \in 1..Len(cfg.vars[i].repl) : cfg.vars[i].repl[j] = "-"

\* ------------------------------------------------------------------ C3
\* the first index of the axiom that holds neither a key nor one of + - [ ]
C3_FirstIllegal ==
  LET bad == {j \in 1..Len(cfg.axiom) : ~C2_CharsLegal(<<cfg.axiom[j]>>)}
  IN  IF bad = {} THEN 0 ELSE CHOOSE j \in bad : \A k \in bad : j <= k

C3_CitesFirstIllegal ==
  /\ Rejected
  /\ err.type = "ValueError"
  /\ err.what = "axiom"
  /\ err.cite = <<cfg.axiom[C3_FirstIllegal]>>
  /\ err.index = C3_FirstIllegal - 1

\* C3 (as stated): an axiom holding a character that is neither a key nor one
\* of + - [ ] is rejected with an error citing the first such character,
\* whatever the variable mapping is.
C3_IllegalAxiomCharCited ==
  (Validated /\ C3_FirstIllegal # 0) => C3_CitesFirstIllegal

\* C3 (amended): ... provided every variable key is a single uppercase
\* letter (the keys are checked first, and an invalid key is what is cited).
C3_IllegalAxiomCharCitedIfKeysLegal ==
  (Validated /\ C3_FirstIllegal # 0 /\ C2_KeysLegal) => C3_CitesFirstIllegal

\* an axiom with two different illegal characters, the first of them cited
C3_Witness ==
  /\ Rejected
  /\ err.what = "axiom"
  /\ Len(cfg.axiom) = 2
  /\ C3_FirstIllegal = 1
  /\ ~C2_CharsLegal(<<cfg.axiom[2]>>)
  /\ cfg.axiom[1] # cfg.axiom[2]

\* ------------------------------------------------------------------ C4
\* the scan is at a "]" and the activation's list of stored states is empty
C4_AtUnmatched == Scanning /\ Char = "]" /\ Len(Top.stored_states) = 0

\* C4: when the scan reaches "]" at index i with no stored state, the call
\* aborts with the unmatched-bracket error citing i, and from then on
\* nothing is scanned and no cursor or screen operation happens.
C4_UnmatchedCloseAborts ==
  [][ /\ C4_AtUnmatched =>
           /\ pc' = "error"
           /\ err'.type = "ValueError"
           /\ err'.what = "unmatched ]"
           /\ err'.index = Top.idx
           /\ Top.axiom[err'.index + 1] = "]"
           /\ UNCHANGED <<turtle, dry, screen, stack>>
      /\ pc = "error" => UNCHANGED <<turtle, dry, screen, stack, fwd, dfwd, dres, tres, ends, moves>>
    ]_vars

\* an unmatched "]" at index 1 was cited, with a character still behind it
C4_Witness ==
  /\ pc = "error"
  /\ err.what = "unmatched ]"
  /\ err.index = 1
  /\ Top.idx = 1
  /\ Len(Top.axiom) > 2

\* ------------------------------------------------------------------ C5
\* does scanning s leave a "[" open (each activation starts with no stored state)
RECURSIVE C5_Open(_, _, _)
C5_Open(s, j, n) ==
  IF j > Len(s) THEN n
  ELSE IF s[j] = "[" THEN C5_Open(s, j + 1, n + 1)
  ELSE IF s[j] = "]" THEN C5_Open(s, j + 1, n - 1)
  ELSE C5_Open(s, j + 1, n)

C5_Production(c) ==
  cfg.vars[CHOOSE i \in 1..Len(cfg.vars) : cfg.vars[i].key = <<c>>].repl

\* the activations of one pass over s at depth d that end with an open "["
RECURSIVE C5_Unclosed(_, _)
C5_Unclosed(s, d) ==
  LET RECURSIVE Below(_)
      Below(j) ==
        IF j > Len(s) THEN 0
        ELSE (IF s[j] \in {"F", "G"} /\ d > 0
                THEN C5_Unclosed(C5_Production(s[j]), d - 1) ELSE 0)
             + Below(j + 1)
  IN  (IF C5_Open(s, 1, 0) > 0 THEN 1 ELSE 0) + Below(1)

\* C5 (as stated): a call whose axiom leaves "[" unmatched reports exactly
\* one warning when it has completed, whatever the depth, the productions
\* and the compression-factor setting.
C5_ExactlyOneWarning ==
  (pc = "done" /\ C5_Open(cfg.axiom, 1, 0) > 0) => Len(warnings) = 1

\* C5 (amended): an unmatched "[" does not abort the call.  When the call
\* has completed, every activation whose own string left a "[" open has
\* warned once, at its own end: the top-level activation last, together
\* with the one completion signal, and before it every such expansion of a
\* production; with 'auto' the dry run has warned for each of them as well.
C5_OneWarningPerActivation ==
  pc = "done" =>
    /\ Len(warnings) =
         (IF cfg.auto THEN 2 ELSE 1) * C5_Unclosed(cfg.axiom, cfg.depth)
    /\ C5_Open(cfg.axiom, 1, 0) > 0 =>
         /\ Len(warnings) >= 1
         /\ warnings[Len(warnings)] = cfg.axiom
         /\ Len(finished) = 1

\* a completed call on an axiom with an open "[" that warned more than once
C5_Witness ==
  /\ pc = "done"
  /\ C5_Open(cfg.axiom, 1, 0) > 0
  /\ Len(warnings) > 2

\* ------------------------------------------------------------------ C6
C6_Case ==
  /\ pc = "done"
  /\ cfg.axiom = <<"F">>
  /\ cfg.vars = << Var(<<"F">>, <<"F">>) >>
  /\ cfg.depth = 0
  /\ cfg.step_length = 10
  /\ cfg.angle = 90

\* the cursor is 10 units ahead of where the scan started, heading unchanged
C6_MovedTen ==
  /\ turtle.heading = origin.heading
  /\ turtle.pos[1] = RAdd(origin.pos[1], Rat(10 * Dir(origin.heading)[1]))
  /\ turtle.pos[2] = RAdd(origin.pos[2], Rat(10 * Dir(origin.heading)[2]))

\* C6 (as stated): axiom "F", F -> F, depth 0, step 10, angle 90 moves the
\* cursor exactly 10 units along its heading, whatever the compression factor.
C6_ForwardTenAnyFactor == C6_Case => C6_MovedTen

\* C6 (amended): ... with a fixed (non-zero) scalar compression factor; with
\* 'auto' the step length is rescaled to the window.
C6_ForwardTenScalarFactor == (C6_Case /\ ~cfg.auto) => C6_MovedTen

\* the case with a scalar factor other than 1
C6_Witness == C6_Case /\ ~cfg.auto /\ cfg.compression_factor = 2 /\ fwd = 1

\* ------------------------------------------------------------------ C7
C7_Case ==
  /\ pc = "done"
  /\ cfg.axiom = <<"F", "[", "+", "F", "]", "-", "F">>
  /\ cfg.depth = 0
  /\ cfg.step_length = 10
  /\ cfg.angle = 90

C8_Fits ==
  \A p, q \in ends :
    /\ RLeq(RSub(p[1], q[1]), RMul(Rat(screen.w), <<MarginNum, MarginDen>>))
    /\ RLeq(RSub(p[2], q[2]), RMul(Rat(screen.h), <<MarginNum, MarginDen>>))

\* C8: with 'auto' the bounding box of the real drawing is at most 0.9 of
\* the window's width and height, in a first call and in a repeated one.
C8_AutoFitsWindow == (pc = "done" /\ cfg.auto) => C8_Fits

\* ------------------------------------------------------------------ C9
\* every production is longer than the one symbol it replaces
C9_Grows == \A i \in 1..Len(cfg.vars) : Len(cfg.vars[i].repl) > 1

\* c names a variable that moves the cursor forward at depth 0
C9_DrawsForward(c) ==
  \E i \in 1..Len(cfg.vars) :
    /\ cfg.vars[i].key = <<c>>
    /\ IF cfg.vars[i].tuple THEN cfg.vars[i].draw ELSE i = 1

\* every production holds at least two occurrences of drawing variables
C9_DrawsTwice ==
  \A i \in 1..Len(cfg.vars) :
    Cardinality({j \in 1..Len(cfg.vars[i].repl) :
                   C9_DrawsForward(cfg.vars[i].repl[j])}) >= 2

C9_AxiomHasVariable ==
  \E j \in 1..Len(cfg.axiom) : \E i \in 1..Len(cfg.vars) :
    cfg.vars[i].key = <<cfg.axiom[j]>>

\* this call has completed at the depth after the previous completed call's
C9_OneDeeper == pc = "done" /\ prev # <<>> /\ cfg.depth = prev[1].depth + 1

\* C9 (as stated): when every production is longer than one symbol, the call
\* at depth d + 1 makes more forward steps than the call at depth d.
C9_MoreStepsIfLonger == (C9_OneDeeper /\ C9_Grows) => fwd > prev[1].fwd

\* C9 (amended): when every production holds at least two occurrences of
\* forward-drawing variables and the axiom holds a variable, a call that
\* completes at depth d + 1 makes more forward steps than at depth d.
C9_MoreStepsIfDrawsTwice ==
  (C9_OneDeeper /\ C9_DrawsTwice /\ C9_AxiomHasVariable) => fwd > prev[1].fwd

\* two completed calls, one level apart, on a two-variable grammar
C9_Witness ==
  /\ C9_OneDeeper
  /\ C9_DrawsTwice
  /\ C9_AxiomHasVariable
  /\ Len(cfg.vars) = 2
  /\ prev[1].depth = 1
  /\ prev[1].fwd > 2

\* ----------------------------------------------------------------- C10
\* C10: every top-level call (that no grammar error aborts) reaches DONE and
\* signals completion exactly once, from the top-level activation, after the
\* scan; nested activations never signal.
C10_DoneExactlyOnce ==
  /\ Len(finished) <= 1
  /\ finished # <<>> => (pc = "done" /\ finished = <<1>>)
  /\ pc = "done" => finished = <<1>>
  /\ pc = "error" => (Rejected \/ err.what = "unmatched ]")

\* ----------------------------------------------------------------- C11
\* C11 (as stated): there is one stack per top-level call, so an unmatched-]
\* error is raised only when no activation of the call holds a stored state.
C11_ErrorOnlyIfNoStateAnywhere ==
  (pc = "error" /\ err.what = "unmatched ]") =>
    \A i \in 1..Len(stack) : stack[i].stored_states = <<>>

\* C11 (amended): every activation has a list of stored states of its own.
\* It starts empty; a "]" is unmatched exactly when the list of the activation
\* that scans it is empty, whatever its callers hold; and a matched "]" pops
\* the last state of that list and leaves the lists of the callers alone.
C11_OneStackPerActivation ==
  [][ /\ (Scanning /\ Char = "]" /\ Top.stored_states = <<>>) =>
           (pc' = "error" /\ err'.what = "unmatched ]" /\ stack' = stack)
      /\ (Scanning /\ Char = "]" /\ Top.stored_states # <<>>) =>
           /\ pc' = "run"
           /\ Len(stack') = Len(stack)
           /\ \A i \in 1..(Len(stack) - 1) : stack'[i] = stack[i]
           /\ stack'[Len(stack)].stored_states =
                SubSeq(Top.stored_states, 1, Len(Top.stored_states) - 1)
      /\ Len(stack') > Len(stack) =>
           stack'[Len(stack')].stored_states = <<>>
    ]_vars

\* a "]" was found unmatched in a replacement while the caller held a state
C11_Witness ==
  /\ pc = "error"
  /\ err.what = "unmatched ]"
  /\ Len(stack) = 2
  /\ ~Top.no_draw
  /\ Len(stack[1].stored_states) = 1

\* ----------------------------------------------------------------- C12
\* the minimal axis-aligned rectangle that contains the points ps (ps # {})
C12_Box(ps) ==
  LET xs == {p[1] : p \in ps}
      ys == {p[2] : p \in ps}
  IN  << <<CHOOSE x \in xs : \A z \in xs : RLeq(x, z),
            CHOOSE y \in ys : \A z \in ys : RLeq(y, z)>>,
         <<CHOOSE x \in xs : \A z \in xs : RLeq(z, x),
            CHOOSE y \in ys : \A z \in ys : RLeq(z, y)>> >>

\* C12: with a scalar factor the returned box is the minimal rectangle that
\* contains the positions the forward steps of the call reached (counting
\* the position the first step left from or not), wherever the call started.
C12_BoxIsMinimal ==
  (pc = "done" /\ ~cfg.auto /\ ends # {}) =>
    \/ ret = C12_Box(ends)
    \/ ret = C12_Box(ends \cup {origin.pos})

\* ----------------------------------------------------------------- C13
\* some variable's production is empty
C13_SomeEmpty == \E i \in 1..Len(cfg.vars) : cfg.vars[i].repl = <<>>

\* C13: a grammar that is legal but for an empty production is rejected by
\* the validation with the error kind of the other grammar violations
\* (ValueError), raised by the check of the replacements, whose message
\* names the variable that owns the production.
C13_EmptyProductionIsGrammarError ==
  (Validated /\ C2_GrammarLegal /\ C13_SomeEmpty) =>
    (Rejected /\ err.type = "ValueError" /\ err.what = "replacement")

\* ----------------------------------------------------------------- C14
\* this call has completed with the previous call's arguments but for the
\* step length, which is the previous one negated
C14_Case ==
  /\ pc = "done"
  /\ prev # <<>>
  /\ cfg.depth = prev[1].depth
  /\ cfg.step_length = -prev[1].step_length

\* C14: with the step length negated, every forward displacement is the
\* negation of the displacement the same step had with the step length as it
\* was, with a scalar compression factor and with 'auto'.
C14_NegatedStepReverses ==
  C14_Case =>
    /\ Len(moves) = Len(prev[1].moves)
    /\ \A k \in 1..Len(moves) :
         moves[k] = <<RNeg(prev[1].moves[k][1]), RNeg(prev[1].moves[k][2])>>

\* the same, of calls with a scalar compression factor only
C14_NegatedStepReversesScalar == cfg.auto \/ C14_NegatedStepReverses

\* ----------------------------------------------------------------- C15
\* the call was made with a zero step length or a zero compression factor
C15_ZeroArgument ==
  cfg.step_length = 0 \/ (~cfg.auto /\ cfg.compression_factor = 0)

\* C15 (as stated): a call with step length 0 or compression factor 0 fails
\* with the error kind of the grammar violations (ValueError).
C15_ZeroIsGrammarError ==
  (Validated /\ C15_ZeroArgument) => (pc = "error" /\ err.type = "ValueError")

\* C15 (amended): when the grammar itself passes the checks of lines 117-127,
\* a call with step length 0 or compression factor 0 is ended by the assert
\* of line 129 with an AssertionError, another kind than the ValueError of
\* the grammar violations, before anything is drawn.
C15_ZeroIsAssertionError ==
  ( /\ Validated
    /\ C15_ZeroArgument
    /\ C2_GrammarLegal
    /\ ~C13_SomeEmpty )
  => /\ Rejected
     /\ err.type = "AssertionError"
     /\ err.what = "step_length or compression_factor"
     /\ fwd = 0 /\ dfwd = 0 /\ stack = <<>>

\* a legal grammar with a zero compression factor and a non-zero step length
\* was ended by the assert
C15_Witness ==
  /\ Rejected
  /\ err.type = "AssertionError"
  /\ cfg.compression_factor = 0
  /\ cfg.step_length # 0
  /\ cfg.axiom = <<"F", "[", "+", "F", "]", "-", "F">>

\* ----------------------------------------------------------------- C16
\* the box b contains the point p, up to the rounding to whole numbers
C16_Contains(b, p) ==
  /\ RLeq(RSub(b[1][1], Rat(1)), p[1]) /\ RLeq(p[1], RAdd(b[2][1], Rat(1)))
  /\ RLeq(RSub(b[1][2], Rat(1)), p[2]) /\ RLeq(p[2], RAdd(b[2][2], Rat(1)))

\* the boxes a and b differ by no more than the rounding to whole numbers
C16_Close(a, b) ==
  \A i, j \in 1..2 : RLeq(RAbs(RSub(a[i][j], b[i][j])), Rat(1))

\* the boxes that tracking the real run could give: over the positions its
\* forward steps reached, alone, with the position the scan started from, or
\* with the origin the running extremes start from
C16_Tracked ==
  { C12_Box(ends), C12_Box(ends \cup {origin.pos}),
    C12_Box(ends \cup {<<RZero, RZero>>}) }

\* the dry run measured a drawing that extends along both axes
C16_TwoDimensional ==
  /\ dry_box # <<>>
  /\ dry_box[1][1] # dry_box[2][1]
  /\ dry_box[1][2] # dry_box[2][2]

\* C16: with 'auto' the box frozen after the dry run, which the call returns,
\* is (up to its rounding) the box that tracking the forward steps of the
\* real run would give, and contains every position the real run drew to.
\* The case is a drawing that extends along both axes.
C16_FrozenBoxIsTrackedBox ==
  (pc = "done" /\ cfg.auto /\ C16_TwoDimensional) =>
    /\ \E b \in C16_Tracked : C16_Close(ret, b)
    /\ \A p \in ends : C16_Contains(ret, p)

\* ----------------------------------------------------------------- C17
\* the index of the [ that matches, by counting brackets backwards from
\* position j of s, a ] with n other ] pending; -1 if there is none
RECURSIVE C17_MatchOpen(_, _, _)
C17_MatchOpen(s, j, n) ==
  IF j = 0 THEN -1
  ELSE IF s[j] = "]" THEN C17_MatchOpen(s, j - 1, n + 1)
  ELSE IF s[j] = "[" THEN (IF n = 0 THEN j - 1 ELSE C17_MatchOpen(s, j - 1, n - 1))
  ELSE C17_MatchOpen(s, j - 1, n)

\* the innermost activation is at a ] that has a stored state to restore
C17_AtClose == Scanning /\ Char = "]" /\ ~Unmatched(Top)

\* the call on "F[+F]-F" that made three forward steps has returned
C17_Example ==
  /\ pc = "done"
  /\ cfg.axiom = <<"F", "[", "+", "F", "]", "-", "F">>
  /\ fwd = 3

\* C17: the step that processes a ] leaves the cursor at the position and
\* heading it had when the [ matching it in the scanned string was processed,
\* whatever was processed in between; so "F[+F]-F" ends at the start position
\* displaced by its first and third forward steps only.
C17_BracketRoundTrip ==
  /\ [][C17_AtClose =>
          LET j == C17_MatchOpen(Top.axiom, Top.idx, 0)
              c == IF Top.no_draw THEN dry'[1] ELSE turtle'
          IN  \E k \in 1..Len(Top.opened) :
                /\ Top.opened[k][1] = j
                /\ c.pos = Top.opened[k][2]
                /\ c.heading = Top.opened[k][3]]_vars
  /\ [](C17_Example =>
          turtle.pos = <<RAdd(origin.pos[1], RAdd(moves[1][1], moves[3][1])),
                         RAdd(origin.pos[2], RAdd(moves[1][2], moves[3][2]))>>)

RECURSIVE C17_Sum(_)
C17_Sum(ms) ==
  IF ms = <<>> THEN <<RZero, RZero>>
  ELSE LET r == C17_Sum(Tail(ms))
       IN  <<RAdd(ms[1][1], r[1]), RAdd(ms[1][2], r[2])>>

\* the top-level activation of a call that expands has just processed the
\* outer ] of nested brackets and the cursor is not where its last forward
\* step ended
C17_Witness ==
  /\ pc = "run" /\ Len(stack) = 1 /\ ~Top.no_draw /\ cfg.depth >= 1
  /\ Top.idx > 0 /\ Top.axiom[Top.idx] = "]"
  /\ Len(Top.opened) = 2 /\ Top.stored_states = <<>>
  /\ fwd >= 3
  /\ turtle.pos = origin.pos
  /\ turtle.heading = origin.heading
  /\ LET d == C17_Sum(moves)
     IN  turtle.pos # <<RAdd(origin.pos[1], d[1]), RAdd(origin.pos[2], d[2])>>

\* ----------------------------------------------------------------- C18
\* the dry run has returned and the step length has been scaled
C18_Scaled == cfg.auto /\ pc \in {"run", "done"} /\ dry_box # <<>>

\* the largest absolute coordinate of the dry run's box along an axis
C18_MaxAbs(axis) == RMax(RAbs(dry_box[1][axis]), RAbs(dry_box[2][axis]))

\* 0.9 * min(width / maxAbsX, height / maxAbsY) * sign(step_length); an axis
\* along which the box has no extent does not bound the factor
C18_Expected ==
  LET mx == C18_MaxAbs(1)
      my == C18_MaxAbs(2)
      base == IF mx = RZero THEN RDiv(Rat(screen.h), my)
              ELSE IF my = RZero THEN RDiv(Rat(screen.w), mx)
              ELSE RMin(RDiv(Rat(screen.w), mx), RDiv(Rat(screen.h), my))
  IN  RMul(RMul(base, <<MarginNum, MarginDen>>),
           Rat(IF cfg.step_length > 0 THEN 1 ELSE -1))

\* C18: with 'auto' the step length of the real run is the given one times
\* 0.9 * min(width / maxAbsX, height / maxAbsY) * sign(step_length), with
\* maxAbsX, maxAbsY the non-negative largest absolute coordinates of the dry
\* run's box.
C18_FactorIsPositiveMinimum ==
  (C18_Scaled /\ stack # <<>>) =>
    stack[1].step_length = RMul(Rat(cfg.step_length), C18_Expected)

\* ----------------------------------------------------------------- C19
\* the box b is centred on the viewport centre (0, 0)
C19_Centred(b) ==
  /\ RAdd(b[1][1], b[2][1]) = RZero
  /\ RAdd(b[1][2], b[2][2]) = RZero

\* C19: with 'auto' the bounding box of the real run, of the positions its
\* forward steps reached with or without the position it started from, is
\* centred on (0, 0), for every system centre.
C19_AutoCentres ==
  (pc = "done" /\ cfg.auto /\ ends # {}) =>
    \/ C19_Centred(C12_Box(ends \cup {origin.pos}))
    \/ C19_Centred(C12_Box(ends))

\* the same, of calls whose system centre is (0, 0), the start counted
C19_AutoCentresAtOrigin ==
  (pc = "done" /\ cfg.auto /\ ends # {} /\ cfg.system_center_cords = <<0, 0>>) =>
    C19_Centred(C12_Box(ends \cup {origin.pos}))

\* ----------------------------------------------------------------- C20
\* the scan of some activation raised the unknown-variable error or the
\* invalid-character error
C20_ScanError ==
  /\ pc = "error"
  /\ err.what \in {"variable not provided", "invalid character"}

\* C20: once the validation has succeeded, neither the unknown-variable error
\* nor the invalid-character error is raised in the whole call.
C20_NoScanErrorAfterValidation == Validated => ~C20_ScanError

\* the same of the unknown-variable error alone
C20_NoUnknownVariable ==
  Validated => ~(pc = "error" /\ err.what = "variable not provided")

\* ----------------------------------------------------------------- C21
\* the coordinate c is, beyond any rounding, within 20 of the edge of a
\* window of the given size
C21_Near(size, c) == RLt(Rat(size \div 2), RAdd(RAbs(c), Rat(EdgeMargin)))

\* the canvas size that holds the coordinate c with the margin
C21_Grown(c) == RAdd(RMul(RAbs(c), Rat(2)), Rat(EdgeMargin))

\* this step is a forward step of the real run with a scalar factor
C21_ScalarStep == fwd' = fwd + 1 /\ ~cfg.auto

\* this step is a forward step of the dry run or of the real run of 'auto'
C21_AutoStep == dfwd' = dfwd + 1 \/ (fwd' = fwd + 1 /\ cfg.auto)

\* C21: a forward step with a scalar factor that leaves the cursor within 20
\* of the window's edge on an axis resizes the canvas on that axis, on x and
\* on y independently, also when both are near at once; a forward step of the
\* dry run or with 'auto' leaves the screen as it is.
C21_ResizesEachAxis ==
  [][/\ C21_ScalarStep =>
          /\ C21_Near(screen.w, turtle'.pos[1]) =>
                screen'.cw = C21_Grown(turtle'.pos[1])
          /\ C21_Near(screen.h, turtle'.pos[2]) =>
                screen'.ch = C21_Grown(turtle'.pos[2])
     /\ C21_AutoStep => screen' = screen]_vars

\* the same with the y axis resized only when the x axis is not near
C21_ResizesXElseY ==
  [][/\ C21_ScalarStep =>
          /\ C21_Near(screen.w, turtle'.pos[1]) =>
                screen'.cw = C21_Grown(turtle'.pos[1]) /\ screen'.ch = screen.ch
          /\ (C21_Near(screen.h, turtle'.pos[2])
               /\ ~RLeq(Rat(screen.w \div 2),
                        RAdd(RAbs(turtle'.pos[1]), Rat(EdgeMargin)))) =>
                screen'.ch = C21_Grown(turtle'.pos[2])
     /\ C21_AutoStep => screen' = screen]_vars

\* ----------------------------------------------------------------- C22
\* the dry run's box has no extent on an axis along which no rounding
\* residue can have been left
C22_ZeroExtent ==
  /\ dry_box # <<>>
  /\ \/ dry_box[1][1] = dry_box[2][1] /\ ~dres.x
     \/ dry_box[1][2] = dry_box[2][2] /\ ~dres.y

\* C22: with 'auto' and a non-zero step length, a call on a grammar that
\* passed validation and has no unmatched ] is not ended by an error, also
\* when the dry run's box has zero extent on an axis.
C22_AutoCompletesOnZeroExtent ==
  (cfg.auto /\ cfg.step_length # 0 /\ C22_ZeroExtent /\ pc = "error") =>
    (Rejected \/ err.what = "unmatched ]")

=============================================================================
